---- MODULE Spec2Model ----
(***************************************************************************)
(* A state-machine model of stix2elevator/options.py: the process-wide     *)
(* options singleton (ALL_OPTIONS), the message gate (msg_id_enabled), the *)
(* logging facade (info / warn / error) and the per-artifact file handler  *)
(* (setup_logger).                                                         *)
(*                                                                         *)
(* Python values are tagged records, so that None, booleans, integers,     *)
(* strings and lists stay distinct the way they are in Python             *)
(* (207 != "207").  A Python string is a sequence of one-character         *)
(* strings, so that split(), str() and the path functions are computed,    *)
(* not assumed.                                                            *)
(***************************************************************************)
EXTENDS Integers, Sequences, FiniteSets, TLC

VARIABLES
    ALL_OPTIONS,         \* options.py:9    None or the ElevatorOptions object
    MESSAGES_GENERATED,  \* options.py:24
    log_level,           \* level of the module logger `log` (0 = NOTSET)
    log_handlers,        \* log.handlers: sequence of handler ids
    handler_objs,        \* handler id -> the FileHandler object's state
    fh,                  \* options.py:18   None or the id of a FileHandler
    console,             \* what the StreamHandler `ch` has written
    files,               \* file system: path -> content of the file
    dirs,                \* file system: the directories that exist
    lastCall,            \* the last call made by the caller and how it ended
    nsets,               \* number of set_option_value calls that wrote a field
    history              \* what the calls made so far did: whether an info,
                         \* warn or error call found its code enabled, and
                         \* the records written to the console since the
                         \* last FileHandler was created, and the file at
                         \* its path as it was then

vars == <<ALL_OPTIONS, MESSAGES_GENERATED, log_level, log_handlers,
          handler_objs, fh, console, files, dirs, lastCall, nsets, history>>

----------------------------------------------------------------------------
(* Bounds of the model.                                                    *)

\* The console holds at most MaxMsgs records.
MaxMsgs == 1
\* At most MaxSetups FileHandler objects are created.
MaxSetups == 2
\* At most MaxSets set_option_value calls are made on an existing object.
MaxSets == 1
\* Where the log file is followed, the console holds at most MaxLogMsgs
\* records.
MaxLogMsgs == 2

----------------------------------------------------------------------------
(* Python values.                                                          *)

None == [t |-> "none"]
Bool(b) == [t |-> "bool", b |-> b]
Num(i) == [t |-> "int", i |-> i]
Str(s) == [t |-> "str", s |-> s]
List(l) == [t |-> "list", l |-> l]
Obj(a) == [t |-> "obj", a |-> a]
\* The outcome of an expression that raises instead of returning.
Raise(e) == [t |-> "raise", e |-> e]

True == Bool(TRUE)
False == Bool(FALSE)

\* Python's truth value of an object (bool(v)); an ElevatorOptions instance
\* defines neither __bool__ nor __len__ and is always true.
Truthy(v) ==
    CASE v.t = "none" -> FALSE
      [] v.t = "bool" -> v.b
      [] v.t = "int" -> v.i # 0
      [] v.t = "str" -> v.s # <<>>
      [] v.t = "list" -> v.l # <<>>
      [] OTHER -> TRUE

Digit(d) ==
    CASE d = 0 -> "0" [] d = 1 -> "1" [] d = 2 -> "2" [] d = 3 -> "3"
      [] d = 4 -> "4" [] d = 5 -> "5" [] d = 6 -> "6" [] d = 7 -> "7"
      [] d = 8 -> "8" [] d = 9 -> "9"

\* str(n) for a natural number n: its decimal digits.
RECURSIVE IntToStr(_)
IntToStr(n) ==
    IF n < 10 THEN <<Digit(n)>>
    ELSE IntToStr(n \div 10) \o <<Digit(n % 10)>>

\* six.text_type(v), which is str(v) on Python 3.
text_type(v) ==
    CASE v.t = "int" -> Str(IntToStr(v.i))
      [] v.t = "str" -> v
      [] v.t = "none" -> Str(<<"N", "o", "n", "e">>)
      [] OTHER -> v

\* s.split(sep) for a one-character separator: the list of the pieces of s
\* between the occurrences of sep ("".split(",") is [""]).
RECURSIVE SplitAcc(_, _, _, _, _)
SplitAcc(s, sep, i, cur, acc) ==
    IF i > Len(s) THEN Append(acc, cur)
    ELSE IF s[i] = sep THEN SplitAcc(s, sep, i + 1, <<>>, Append(acc, cur))
    ELSE SplitAcc(s, sep, i + 1, Append(cur, s[i]), acc)

split(s, sep) == SplitAcc(s, sep, 1, <<>>, <<>>)

\* x in l for a list l: some element equals x.  Python's == between an int
\* and a str is False, as is the equality of the tagged records.
InList(x, l) == \E i \in 1..Len(l) : l[i] = x

\* x in s for two strings: x is a substring of s.
InStr(x, s) ==
    \E i \in 0..(Len(s) - Len(x)) : SubSeq(s, i + 1, i + Len(x)) = x

\* The expression `x in c`: membership in a list, substring of a string, and
\* TypeError for an operand that is not iterable (None, a bool, an int).
In(x, c) ==
    CASE c.t = "list" -> Bool(InList(x, c.l))
      [] c.t = "str" -> IF x.t = "str" THEN Bool(InStr(x.s, c.s))
                        ELSE Raise("TypeError")
      [] OTHER -> Raise("TypeError")

----------------------------------------------------------------------------
(* The message catalog.                                                    *)

Range(a, b) == [i \in 1..(b - a + 1) |-> Num(a + i - 1)]

CHECK_CODES ==
    Range(201, 211) \o Range(301, 306) \o Range(401, 428) \o
    Range(501, 512) \o Range(601, 625) \o Range(701, 720) \o
    Range(801, 816) \o Range(901, 905)

----------------------------------------------------------------------------
(* Literals.  A string whose characters the program never inspects (a      *)
(* policy, a level name, the validator arguments) is written as one        *)
(* element; codes, option lists and paths are written character by         *)
(* character.                                                              *)

Word(w) == Str(<<w>>)
EmptyStr == Str(<<>>)
Comma == ","
Dot == "."
Colon == ":"
Slash == "/"
DotLog == <<".", "l", "o", "g">>

----------------------------------------------------------------------------
(* ElevatorOptions: options.py:88-187.                                     *)

\* The keyword defaults of ElevatorOptions.__init__ (options.py:118-124).
KwDefaults ==
    [file_ |-> None, incidents |-> False, no_squirrel_gaps |-> False,
     infrastructure |-> False, package_created_by_id |-> None,
     default_timestamp |-> None, validator_args |-> Word("--strict-types"),
     enable |-> EmptyStr, disable |-> EmptyStr, silent |-> False,
     message_log_directory |-> None, policy |-> Word("no_policy"),
     output_directory |-> None, log_level |-> Word("INFO"),
     markings_allowed |-> EmptyStr]

\* The attributes copied unconditionally from cmd_args (options.py:129-142).
CmdArgsFields ==
    {"incidents", "no_squirrel_gaps", "infrastructure",
     "package_created_by_id", "default_timestamp", "validator_args",
     "enable", "disable", "silent", "policy", "message_log_directory",
     "log_level", "markings_allowed"}

\* The attributes copied only when cmd_args has them (options.py:127, 143).
OptionalFields == {"file_", "output_directory"}

\* CHECK_CODES[x] for a token x that is `in CHECK_CODES`.  The tokens are
\* strings and the catalog holds integers, so the test never succeeds; a
\* string used as a list index would raise TypeError.
CheckCodeAt(x) == Raise("TypeError")

\* [CHECK_CODES[x] if x in CHECK_CODES else x for x in tokens]
MapTokens(tokens) ==
    [i \in 1..Len(tokens) |->
        IF InList(Str(tokens[i]), CHECK_CODES) THEN CheckCodeAt(Str(tokens[i]))
        ELSE Str(tokens[i])]

\* options.py:170-175
DisabledOf(disable) ==
    IF Truthy(disable) THEN List(MapTokens(split(disable.s, Comma)))
    ELSE List(<<>>)

\* A default enabled list that holds the catalog's integers as they are.
EnabledOf_Ints(enable) ==
    IF Truthy(enable) THEN List(MapTokens(split(enable.s, Comma)))
    ELSE List(CHECK_CODES)

\* options.py:177-182
EnabledOf(enable) ==
    IF Truthy(enable) THEN List(MapTokens(split(enable.s, Comma)))
    ELSE List([i \in 1..Len(CHECK_CODES) |-> text_type(CHECK_CODES[i])])

\* options.py:184-185
MarkingsOf(m) ==
    IF Truthy(m) THEN List([i \in 1..Len(split(m.s, Comma)) |->
                               Str(split(m.s, Comma)[i])])
    ELSE m

\* The attributes assigned from the arguments (options.py:126-165):
\* from cmd_args when it is given, from the keywords kw otherwise.
CopiedAttrs(cmd_args, kw) ==
    IF cmd_args # None
    THEN [n \in CmdArgsFields \cup (OptionalFields \cap DOMAIN cmd_args.a) |->
             cmd_args.a[n]]
    ELSE [n \in CmdArgsFields \cup OptionalFields |-> kw[n]]

\* ElevatorOptions(cmd_args, **kw): the constructed object.
ElevatorOptions(cmd_args, kw) ==
    LET c == CopiedAttrs(cmd_args, kw) IN
    Obj([n \in DOMAIN c \cup {"disabled", "enabled", "marking_container"} |->
            CASE n = "disabled" -> DisabledOf(c["disable"])
              [] n = "enabled" -> EnabledOf(c["enable"])
              [] n = "markings_allowed" -> MarkingsOf(c["markings_allowed"])
              [] n = "marking_container" -> None
              [] OTHER -> c[n]])

----------------------------------------------------------------------------
(* Option access and the gate: options.py:214-237.  The global ALL_OPTIONS *)
(* that the functions read is their first parameter here.                  *)

\* A getter that reads the attribute without asking hasattr first.
get_option_value_NoHasattr(opts, option_name) ==
    IF ~Truthy(opts) THEN None
    ELSE IF option_name \in DOMAIN opts.a THEN opts.a[option_name]
    ELSE Raise("AttributeError")

get_option_value(opts, option_name) ==
    IF Truthy(opts) /\ option_name \in DOMAIN opts.a
    THEN opts.a[option_name]
    ELSE None

\* A setattr that derives the lists again when a raw option string is set.
SetAttr_Recompute(opts, option_name, option_value) ==
    Obj([n \in DOMAIN opts.a \cup {option_name} |->
            IF n = option_name THEN option_value
            ELSE IF n = "enabled" /\ option_name = "enable"
                 THEN EnabledOf(option_value)
            ELSE IF n = "disabled" /\ option_name = "disable"
                 THEN DisabledOf(option_value)
            ELSE opts.a[n]])

\* setattr(ALL_OPTIONS, option_name, option_value)
SetAttr(opts, option_name, option_value) ==
    Obj([n \in DOMAIN opts.a \cup {option_name} |->
            IF n = option_name THEN option_value ELSE opts.a[n]])

\* `not r` for the outcome r of an `in` expression.
Not(r) == IF r.t = "raise" THEN r ELSE Bool(~r.b)

\* A gate that compares the code as it was passed, without text_type.
msg_id_enabled_NoCoerce(opts, msg_id) ==
    IF Truthy(get_option_value(opts, "silent")) THEN False
    ELSE IF ~Truthy(get_option_value(opts, "disabled"))
         THEN In(msg_id, get_option_value(opts, "enabled"))
         ELSE Not(In(msg_id, get_option_value(opts, "disabled")))

\* A gate that does not look at silent.
msg_id_enabled_NoSilent(opts, msg_id) ==
    LET m == text_type(msg_id) IN
    IF ~Truthy(get_option_value(opts, "disabled"))
    THEN In(m, get_option_value(opts, "enabled"))
    ELSE Not(In(m, get_option_value(opts, "disabled")))

\* A gate that answers membership in the disabled list without negating it.
msg_id_enabled_NoNegation(opts, msg_id) ==
    LET m == text_type(msg_id) IN
    IF Truthy(get_option_value(opts, "silent")) THEN False
    ELSE IF ~Truthy(get_option_value(opts, "disabled"))
         THEN In(m, get_option_value(opts, "enabled"))
         ELSE In(m, get_option_value(opts, "disabled"))

\* A gate that lets a code pass only when the enabled list holds it and the
\* disabled list does not.
msg_id_enabled_BothLists(opts, msg_id) ==
    LET m == text_type(msg_id) IN
    IF Truthy(get_option_value(opts, "silent")) THEN False
    ELSE IF ~Truthy(get_option_value(opts, "disabled"))
         THEN In(m, get_option_value(opts, "enabled"))
         ELSE IF In(m, get_option_value(opts, "enabled")) = True
              THEN Not(In(m, get_option_value(opts, "disabled")))
              ELSE In(m, get_option_value(opts, "enabled"))

\* A gate that turns down every code outside the catalog.
msg_id_enabled_RejectUnknown(opts, msg_id) ==
    LET m == text_type(msg_id) IN
    IF ~\E i \in 1..Len(CHECK_CODES) : text_type(CHECK_CODES[i]) = m
    THEN False
    ELSE IF Truthy(get_option_value(opts, "silent")) THEN False
    ELSE IF ~Truthy(get_option_value(opts, "disabled"))
         THEN In(m, get_option_value(opts, "enabled"))
         ELSE Not(In(m, get_option_value(opts, "disabled")))

msg_id_enabled(opts, msg_id) ==
    LET m == text_type(msg_id) IN
    IF Truthy(get_option_value(opts, "silent")) THEN False
    ELSE IF ~Truthy(get_option_value(opts, "disabled"))
         THEN In(m, get_option_value(opts, "enabled"))
         ELSE Not(In(m, get_option_value(opts, "disabled")))

----------------------------------------------------------------------------
(* The logging module as options.py uses it.                               *)

\* The id of the console handler `ch` in log.handlers.
CH == 0

\* The level of the root logger, which the module logger inherits while its
\* own level is NOTSET: logging's default, WARNING.
ROOT_LEVEL == 30

\* logging._checkLevel: an integer is the level, a known name is mapped to
\* its number, any other string raises ValueError, anything else TypeError.
LevelNo(v) ==
    CASE v.t = "int" -> v
      [] v.t = "str" ->
            CASE v = Word("CRITICAL") -> Num(50)
              [] v = Word("ERROR") -> Num(40)
              [] v = Word("WARN") -> Num(30)
              [] v = Word("WARNING") -> Num(30)
              [] v = Word("INFO") -> Num(20)
              [] v = Word("DEBUG") -> Num(10)
              [] v = Word("NOTSET") -> Num(0)
              [] OTHER -> Raise("ValueError")
      [] OTHER -> Raise("TypeError")

\* Logger.getEffectiveLevel for `log`, whose only ancestor is the root.
EffectiveLevel(level) == IF level # 0 THEN level ELSE ROOT_LEVEL

\* The state the functions of the module read and write, as one record.
World ==
    [opts |-> ALL_OPTIONS, mg |-> MESSAGES_GENERATED, level |-> log_level,
     handlers |-> log_handlers, hobjs |-> handler_objs, fh |-> fh,
     console |-> console, files |-> files, dirs |-> dirs, raised |-> ""]

\* The file p with content c (created when absent).
WriteFile(fs, p, c) ==
    [q \in DOMAIN fs \cup {p} |-> IF q = p THEN c ELSE fs[q]]

\* The file p, if it exists: no content or one.
FileAt(fs, p) == IF p \in DOMAIN fs THEN <<fs[p]>> ELSE <<>>

\* A FileHandler that opens its file for appending.
FileEmit_Append(w, h, rec) ==
    LET o == w.hobjs[h]
        opened == IF o.path \in DOMAIN w.files THEN w.files
                  ELSE WriteFile(w.files, o.path, <<>>)
    IN [w EXCEPT !.hobjs[h].stream = "open",
                 !.files = WriteFile(opened, o.path,
                                     Append(opened[o.path], rec))]

\* FileHandler.emit on handler h: a handler created with delay=True opens
\* its file (mode 'w': created or truncated) at its first record.
FileEmit(w, h, rec) ==
    LET o == w.hobjs[h]
        opened == IF o.stream = "open" THEN w.files
                  ELSE WriteFile(w.files, o.path, <<>>)
    IN [w EXCEPT !.hobjs[h].stream = "open",
                 !.files = WriteFile(opened, o.path,
                                     Append(opened[o.path], rec))]

\* Logger.callHandlers: every handler of log.handlers, in order, gets the
\* record (the handlers' own levels are NOTSET; the root has no handler).
RECURSIVE CallHandlers(_, _, _)
CallHandlers(w, rec, i) ==
    IF i > Len(w.handlers) THEN w
    ELSE LET h == w.handlers[i]
             w1 == IF h = CH THEN [w EXCEPT !.console = Append(@, rec)]
                   ELSE FileEmit(w, h, rec)
         IN CallHandlers(w1, rec, i + 1)

\* log.info / log.warning / log.error: the record is handled when its level
\* is at least the logger's effective level.
\* A logger that hands every record to the handlers, whatever its level.
LoggerLog_NoLevel(w, levelno, levelname, ecode) ==
    CallHandlers(w, [levelname |-> levelname, ecode |-> ecode], 1)

LoggerLog(w, levelno, levelname, ecode) ==
    IF levelno >= EffectiveLevel(w.level)
    THEN CallHandlers(w, [levelname |-> levelname, ecode |-> ecode], 1)
    ELSE w

----------------------------------------------------------------------------
(* info, warn, error: options.py:27-45.                                    *)

\* An emitter that sets MESSAGES_GENERATED only when the logger's level let
\* the record through.
Emit_FlagWhenWritten(w, levelno, levelname, ecode) ==
    LET g == msg_id_enabled(w.opts, ecode) IN
    IF g.t = "raise" THEN [w EXCEPT !.raised = g.e]
    ELSE IF g.b
         THEN [LoggerLog(w, levelno, levelname, ecode)
                  EXCEPT !.mg = w.mg \/ levelno >= EffectiveLevel(w.level)]
    ELSE w

\* An emitter that sets MESSAGES_GENERATED before it asks the gate.
Emit_FlagFirst(w, levelno, levelname, ecode) ==
    LET g == msg_id_enabled(w.opts, ecode) IN
    IF g.t = "raise" THEN [w EXCEPT !.raised = g.e]
    ELSE IF g.b THEN [LoggerLog(w, levelno, levelname, ecode) EXCEPT !.mg = TRUE]
    ELSE [w EXCEPT !.mg = TRUE]

Emit(w, levelno, levelname, ecode) ==
    LET g == msg_id_enabled(w.opts, ecode) IN
    IF g.t = "raise" THEN [w EXCEPT !.raised = g.e]
    ELSE IF g.b THEN [LoggerLog(w, levelno, levelname, ecode) EXCEPT !.mg = TRUE]
    ELSE w

info(w, ecode) == Emit(w, 20, "INFO", ecode)
warn(w, ecode) == Emit(w, 30, "WARNING", ecode)
error(w, ecode) == Emit(w, 40, "ERROR", ecode)

----------------------------------------------------------------------------
(* setup_logger: options.py:48-85.                                         *)

\* The current working directory of the process.
Cwd == <<"/", "w">>

\* os.path.split(p)[1]: what follows the last slash of p.
RECURSIVE Basename(_)
Basename(p) ==
    IF p = <<>> \/ p[Len(p)] = Slash THEN <<>>
    ELSE Append(Basename(SubSeq(p, 1, Len(p) - 1)), p[Len(p)])

\* os.path.join(a, b)
PathJoin(a, b) ==
    IF b # <<>> /\ b[1] = Slash THEN b
    ELSE IF a = <<>> \/ a[Len(a)] = Slash THEN a \o b
    ELSE a \o <<Slash>> \o b

\* os.path.abspath(p) for a path without "." and ".." components and
\* without doubled or trailing slashes: relative paths start at Cwd.
AbsPath(p) == IF p # <<>> /\ p[1] = Slash THEN p ELSE PathJoin(Cwd, p)

\* options.py:62-68: the name of the log file.
LogFileName(file_directory, package_id) ==
    IF Truthy(file_directory)
    THEN Str(split(Basename(file_directory.s), Dot)[1] \o DotLog)
    ELSE IF Len(split(package_id.s, Colon)) < 2 THEN Raise("IndexError")
    ELSE Str(split(package_id.s, Colon)[2] \o DotLog)

\* A setup that attaches the new handler without detaching the old one.
SwapFileHandler_NoRemove(w, destination) ==
    LET id == Len(w.hobjs) + 1
    IN [w EXCEPT !.hobjs = Append(@, [path |-> destination,
                                      stream |-> "delayed"]),
                 !.fh = Num(id),
                 !.handlers = Append(@, id)]

\* A setup whose FileHandler opens (and truncates) its file at once, as
\* without delay=True.
SwapFileHandler_Eager(w, destination) ==
    LET attached == w.fh # None /\ InList(w.fh.i, w.handlers)
        hobjs1 == IF attached
                  THEN [w.hobjs EXCEPT ![w.fh.i].stream = "closed"]
                  ELSE w.hobjs
        handlers1 == IF attached
                     THEN SelectSeq(w.handlers, LAMBDA h : h # w.fh.i)
                     ELSE w.handlers
        id == Len(w.hobjs) + 1
    IN [w EXCEPT !.hobjs = Append(hobjs1, [path |-> destination,
                                           stream |-> "open"]),
                 !.fh = Num(id),
                 !.handlers = Append(handlers1, id),
                 !.files = WriteFile(@, destination, <<>>)]

\* options.py:76-85: the old handler, if attached, is closed and removed;
\* a new FileHandler(destination, mode='w', delay=True) is attached.
SwapFileHandler(w, destination) ==
    LET attached == w.fh # None /\ InList(w.fh.i, w.handlers)
        hobjs1 == IF attached
                  THEN [w.hobjs EXCEPT ![w.fh.i].stream = "closed"]
                  ELSE w.hobjs
        handlers1 == IF attached
                     THEN SelectSeq(w.handlers, LAMBDA h : h # w.fh.i)
                     ELSE w.handlers
        id == Len(w.hobjs) + 1
    IN [w EXCEPT !.hobjs = Append(hobjs1, [path |-> destination,
                                           stream |-> "delayed"]),
                 !.fh = Num(id),
                 !.handlers = Append(handlers1, id)]

setup_logger(w, package_id) ==
    IF ~Truthy(w.opts) THEN w
    ELSE
      LET lv == LevelNo(get_option_value(w.opts, "log_level")) IN
      IF lv.t = "raise" THEN [w EXCEPT !.raised = lv.e]
      ELSE
        LET w1 == [w EXCEPT !.level = lv.i]
            output_directory == get_option_value(w.opts, "message_log_directory")
            file_directory == get_option_value(w.opts, "file_")
            filename == LogFileName(file_directory, package_id)
        IN
        IF ~Truthy(output_directory) THEN w1
        ELSE IF filename.t = "raise" THEN [w1 EXCEPT !.raised = filename.e]
        ELSE
          LET w2 == [w1 EXCEPT !.dirs = @ \cup {output_directory.s}]
              destination == AbsPath(PathJoin(output_directory.s, filename.s))
          IN SwapFileHandler(w2, destination)

----------------------------------------------------------------------------
(* initialize_options, set_option_value: options.py:190-199, 221-225.      *)

\* An initialize_options without the `if not ALL_OPTIONS` guard.
initialize_options_NoGuard(w, elevator_args) ==
    [w EXCEPT !.opts = ElevatorOptions(elevator_args, KwDefaults)]

initialize_options(w, elevator_args) ==
    IF ~Truthy(w.opts)
    THEN
      LET w1 == [w EXCEPT !.opts = ElevatorOptions(elevator_args, KwDefaults)]
          w2 == IF Truthy(w1.opts.a["silent"])
                   /\ Truthy(w1.opts.a["message_log_directory"])
                THEN warn(w1, Num(209)) ELSE w1
          w3 == IF w2.raised = ""
                   /\ Truthy(w2.opts.a["silent"])
                   /\ w2.opts.a["policy"] # Word("no_policy")
                THEN warn(w2, Num(211)) ELSE w2
      IN w3
    ELSE w

set_option_value(w, option_name, option_value) ==
    IF Truthy(w.opts)
    THEN [w EXCEPT !.opts = SetAttr(w.opts, option_name, option_value)]
    ELSE error(w, Num(207))

----------------------------------------------------------------------------
(* The calls the rest of the program makes, and their arguments.           *)

S207 == IntToStr(207)
S209 == IntToStr(209)
S210 == IntToStr(210)
LogDir == <<"/", "l">>

\* An argparse.Namespace with the attributes ElevatorOptions reads; `opt`
\* holds those of file_ and output_directory that the namespace has.
Namespace(enable, disable, silent, dir, policy, level, opt) ==
    Obj([n \in CmdArgsFields \cup DOMAIN opt |->
            CASE n = "enable" -> enable
              [] n = "disable" -> disable
              [] n = "silent" -> silent
              [] n = "message_log_directory" -> dir
              [] n = "policy" -> policy
              [] n = "log_level" -> level
              [] n \in DOMAIN opt -> opt[n]
              [] OTHER -> KwDefaults[n]])

EnableInputs == {EmptyStr, Str(S210)}
DisableInputs == {EmptyStr, Str(S207 \o <<Comma>> \o S209)}
SilentInputs == {False, True}
LogDirInputs == {None, Str(LogDir)}
PolicyInputs == {Word("no_policy"), Word("strict_policy")}
LevelInputs == {Word("INFO"), Word("ERROR")}
NoOptional == [n \in {} |-> None]

Default(n) == KwDefaults[n]

\* The arguments of initialize_options: None, or a parsed command line.  The
\* command lines vary the message lists and silent, or silent, the log
\* directory and the policy, or the log directory and the level, with the
\* other options at their defaults.
ArgsInputs ==
    {None}
    \cup {Namespace(e, d, s, None, Default("policy"), Default("log_level"),
                    NoOptional) :
             e \in EnableInputs, d \in DisableInputs, s \in SilentInputs}
    \cup {Namespace(EmptyStr, EmptyStr, s, l, p, Default("log_level"),
                    NoOptional) :
             s \in SilentInputs, l \in LogDirInputs, p \in PolicyInputs}
    \cup {Namespace(EmptyStr, EmptyStr, False, l, Default("policy"), v,
                    NoOptional) :
             l \in LogDirInputs, v \in LevelInputs}

\* The codes info, warn and error are called with.
EmitCodes == {Num(207), Num(210)}

\* The package identifiers setup_logger is called with.
PackageIds == {Str(<<"a", ":", "b">>)}

\* The (name, value) pairs set_option_value is called with.
SetInputs ==
    {<<"silent", True>>, <<"silent", False>>,
     <<"message_log_directory", None>>,
     <<"enabled", List(<<Str(S207)>>)>>}

----------------------------------------------------------------------------
(* The state machine.                                                      *)

Init ==
    /\ ALL_OPTIONS = None
    /\ MESSAGES_GENERATED = FALSE
    /\ log_level = 0
    /\ log_handlers = <<CH>>
    /\ handler_objs = <<>>
    /\ fh = None
    /\ console = <<>>
    /\ files = [q \in {} |-> <<>>]
    /\ dirs = {Cwd}
    /\ lastCall = [op |-> "start", arg |-> None, raised |-> ""]
    /\ nsets = 0
    /\ history = [passed |-> FALSE, since_setup |-> <<>>, at_setup |-> <<>>]

\* The call `op(arg)` took the state to w (up to the point where it raised,
\* when it did).
Commit(w, op, arg) ==
    /\ ALL_OPTIONS' = w.opts
    /\ MESSAGES_GENERATED' = w.mg
    /\ log_level' = w.level
    /\ log_handlers' = w.handlers
    /\ handler_objs' = w.hobjs
    /\ fh' = w.fh
    /\ console' = w.console
    /\ files' = w.files
    /\ dirs' = w.dirs
    /\ lastCall' = [op |-> op, arg |-> arg, raised |-> w.raised]
    /\ history' =
          [passed |-> \/ history.passed
                      \/ /\ op \in {"info", "warn", "error"}
                         /\ msg_id_enabled(ALL_OPTIONS, arg) = True,
           since_setup |->
              IF Len(w.hobjs) > Len(handler_objs) THEN <<>>
              ELSE history.since_setup
                      \o SubSeq(w.console, Len(console) + 1, Len(w.console)),
           at_setup |->
              IF Len(w.hobjs) > Len(handler_objs)
              THEN FileAt(files, w.hobjs[Len(w.hobjs)].path)
              ELSE history.at_setup]

InitializeOptions(elevator_args) ==
    /\ Commit(initialize_options(World, elevator_args),
              "initialize_options", None)
    /\ UNCHANGED nsets

Info(ecode) ==
    /\ Len(console) < MaxMsgs
    /\ Commit(info(World, ecode), "info", ecode)
    /\ UNCHANGED nsets

Warn(ecode) ==
    /\ Len(console) < MaxMsgs
    /\ Commit(warn(World, ecode), "warn", ecode)
    /\ UNCHANGED nsets

Error(ecode) ==
    /\ Len(console) < MaxMsgs
    /\ Commit(error(World, ecode), "error", ecode)
    /\ UNCHANGED nsets

SetupLogger(package_id) ==
    /\ Len(handler_objs) < MaxSetups
    /\ Commit(setup_logger(World, package_id), "setup_logger", package_id)
    /\ UNCHANGED nsets

SetOptionValue(option_name, option_value) ==
    /\ nsets < MaxSets
    /\ Commit(set_option_value(World, option_name, option_value),
              "set_option_value", Word(option_name))
    /\ nsets' = IF Truthy(ALL_OPTIONS) THEN nsets + 1 ELSE nsets

Next ==
    \/ \E a \in ArgsInputs : InitializeOptions(a)
    \/ \E c \in EmitCodes : Info(c)
    \/ \E c \in EmitCodes : Warn(c)
    \/ \E c \in EmitCodes : Error(c)
    \/ \E p \in PackageIds : SetupLogger(p)
    \/ \E nv \in SetInputs : SetOptionValue(nv[1], nv[2])

Spec == Init /\ [][Next]_vars

\* The command lines that disable exactly one code of the catalog.
CatalogArgs ==
    {Namespace(EmptyStr, text_type(CHECK_CODES[i]), False, None,
               Default("policy"), Default("log_level"), NoOptional) :
        i \in 1..Len(CHECK_CODES)}

\* The program started with one catalog code disabled.
NextCatalog ==
    \/ \E a \in CatalogArgs : InitializeOptions(a)
    \/ \E c \in EmitCodes : Info(c)
    \/ \E c \in EmitCodes : Warn(c)
    \/ \E c \in EmitCodes : Error(c)
    \/ \E p \in PackageIds : SetupLogger(p)

SpecCatalog == Init /\ [][NextCatalog]_vars

S999 == IntToStr(999)

\* Command lines whose enable list shares 207 with the disable list and
\* holds 999, a code outside the catalog.
GateArgs ==
    {Namespace(e, d, s, None, Default("policy"), Default("log_level"),
               NoOptional) :
        e \in {EmptyStr, Str(S207 \o <<Comma>> \o S999)},
        d \in DisableInputs, s \in SilentInputs}

GateEmitCodes == {Num(207), Num(999)}

\* set_option_value on the raw option strings, on silent and on the derived
\* lists.
GateSetInputs ==
    {<<"enable", Str(S209)>>, <<"enable", EmptyStr>>,
     <<"disable", Str(S210)>>, <<"disable", EmptyStr>>,
     <<"silent", True>>,
     <<"enabled", List(<<Str(S210)>>)>>,
     <<"disabled", List(<<Str(S999)>>)>>,
     <<"log_level", Word("ERROR")>>}

\* The program with its message lists configured and changed.
NextGate ==
    \/ \E a \in {None} \cup GateArgs : InitializeOptions(a)
    \/ \E c \in GateEmitCodes : Info(c)
    \/ \E c \in GateEmitCodes : Warn(c)
    \/ \E c \in GateEmitCodes : Error(c)
    \/ \E nv \in GateSetInputs : SetOptionValue(nv[1], nv[2])

SpecGate == Init /\ [][NextGate]_vars

\* Input files: "/t/r.j", and "/t/a.b.j" with two dots in its name.
FileOneDot == <<"/", "t", "/", "r", ".", "j">>
FileTwoDots == <<"/", "t", "/", "a", ".", "b", ".", "j">>

\* Command lines with a log directory: without file_ and output_directory,
\* with file_ None, and with each of the input files.
LogArgs ==
    {Namespace(EmptyStr, EmptyStr, False, Str(LogDir), Default("policy"),
               Default("log_level"), opt) :
        opt \in {NoOptional,
                 [file_ |-> None],
                 [file_ |-> Str(FileOneDot), output_directory |-> None],
                 [file_ |-> Str(FileTwoDots), output_directory |-> None]}}

\* Package identifiers with one colon, with none and with two.
LogPackageIds ==
    {Str(<<"a", ":", "b">>), Str(<<"a", "b">>),
     Str(<<"a", ":", "b", ":", "c">>)}

LogEmitCodes == {Num(210)}

LogSetInputs ==
    {<<"message_log_directory", None>>,
     <<"message_log_directory", Str(LogDir)>>,
     <<"file_", Str(FileOneDot)>>,
     <<"silent", True>>}

\* The option names get_option_value is called with.
GetNames == {"silent", "file_", "output_directory", "no_such_option"}

LogInfo(ecode) ==
    /\ Len(console) < MaxLogMsgs
    /\ Commit(info(World, ecode), "info", ecode)
    /\ UNCHANGED nsets

LogWarn(ecode) ==
    /\ Len(console) < MaxLogMsgs
    /\ Commit(warn(World, ecode), "warn", ecode)
    /\ UNCHANGED nsets

LogError(ecode) ==
    /\ Len(console) < MaxLogMsgs
    /\ Commit(error(World, ecode), "error", ecode)
    /\ UNCHANGED nsets

\* A call of get_option_value: the record of the call holds what it
\* returned.
GetOptionValue(option_name) ==
    LET r == get_option_value(ALL_OPTIONS, option_name) IN
    /\ lastCall' = [op |-> "get_option_value", arg |-> Word(option_name),
                    raised |-> IF r.t = "raise" THEN r.e ELSE "",
                    result |-> r]
    /\ UNCHANGED <<ALL_OPTIONS, MESSAGES_GENERATED, log_level, log_handlers,
                   handler_objs, fh, console, files, dirs, nsets, history>>

\* The program converting artifacts with a message log.
NextLog ==
    \/ \E a \in {None} \cup LogArgs : InitializeOptions(a)
    \/ \E c \in LogEmitCodes : LogInfo(c)
    \/ \E c \in LogEmitCodes : LogWarn(c)
    \/ \E c \in LogEmitCodes : LogError(c)
    \/ \E p \in LogPackageIds : SetupLogger(p)
    \/ \E nv \in LogSetInputs : SetOptionValue(nv[1], nv[2])
    \/ \E n \in GetNames : GetOptionValue(n)

SpecLog == Init /\ [][NextLog]_vars

----------------------------------------------------------------------------
(* Vocabulary of the properties.                                           *)

Initialized == Truthy(ALL_OPTIONS)
Attr(n) == ALL_OPTIONS.a[n]
EmitOps == {"info", "warn", "error"}
Elems(l) == {l[i] : i \in 1..Len(l)}

\* The codes the gate is evaluated on: catalog codes from both ends of the
\* catalog and from the option lists of the inputs, and one code outside it.
TestCodes == {201, 207, 209, 210, 211, 905, 999}

\* The gate's answer in the current state.
Gate(code) == msg_id_enabled(ALL_OPTIONS, code)

\* The record a call of severity op with code ecode hands to the handlers.
LevelNameOf(op) ==
    CASE op = "info" -> "INFO" [] op = "warn" -> "WARNING" [] op = "error" -> "ERROR"
LevelNoOf(op) ==
    CASE op = "info" -> 20 [] op = "warn" -> 30 [] op = "error" -> 40
RecordOf(op, ecode) == [levelname |-> LevelNameOf(op), ecode |-> ecode]

\* Everything but the record of the last call is unchanged.
ProgramStateUnchanged ==
    UNCHANGED <<ALL_OPTIONS, MESSAGES_GENERATED, log_level, log_handlers,
                handler_objs, fh, console, files, dirs>>

----------------------------------------------------------------------------
(* C1: in every initialized state the gate follows the three-step rule     *)
(* (silent; else a non-empty disabled list; else the enabled list), and    *)
(* answers alike for the number and for the string of one code.            *)

ThreeStepRule(code) ==
    IF Attr("silent") = True THEN False
    ELSE IF Attr("disabled").l # <<>>
         THEN Bool(text_type(code) \notin Elems(Attr("disabled").l))
         ELSE Bool(text_type(code) \in Elems(Attr("enabled").l))

C1_GateFollowsRule ==
    Initialized =>
        \A n \in TestCodes :
            /\ Gate(Num(n)) = ThreeStepRule(Num(n))
            /\ Gate(Str(IntToStr(n))) = Gate(Num(n))

\* The rule's second step decides: a disabled list is in force, it holds
\* 207 and not 210, and a call has been made in that state.
C1_Witness ==
    /\ Initialized
    /\ Attr("silent") = False
    /\ Attr("disabled").l # <<>>
    /\ Gate(Num(207)) = False
    /\ Gate(Str(S210)) = True
    /\ lastCall.op = "warn"

----------------------------------------------------------------------------
(* C2: while silent is true the gate is closed for every code, also for a  *)
(* code of an explicit enable list, and no initialize_options, info, warn, *)
(* error or setup_logger call that ends with silent true writes to the     *)
(* console or to a file or changes MESSAGES_GENERATED.                     *)

Silent(opts) == Truthy(get_option_value(opts, "silent"))

C2_SilentBlocksAll ==
    /\ [](Silent(ALL_OPTIONS) =>
            \A n \in TestCodes : Gate(Num(n)) = False /\ Gate(Str(IntToStr(n))) = False)
    /\ [][(/\ Silent(ALL_OPTIONS')
           /\ lastCall'.op \in EmitOps \cup {"initialize_options", "setup_logger"})
          => /\ UNCHANGED <<console, files, MESSAGES_GENERATED>>
             /\ (ALL_OPTIONS = None => MESSAGES_GENERATED' = FALSE)]_vars

\* warn(..., 210) has been called with silent true and 210 in the enable list.
C2_Witness ==
    /\ Initialized
    /\ Attr("silent") = True
    /\ Str(S210) \in Elems(Attr("enabled").l)
    /\ Attr("enable") = Str(S210)
    /\ lastCall = [op |-> "warn", arg |-> Num(210), raised |-> ""]
    /\ console = <<>>
    /\ ~MESSAGES_GENERATED

----------------------------------------------------------------------------
(* C3: set_option_value on the uninitialized module reports an error       *)
(* record with code 207, raises nothing, and leaves the module             *)
(* uninitialized.                                                          *)

C3_UninitializedSetReports207 ==
    [][(ALL_OPTIONS = None /\ lastCall'.op = "set_option_value")
       => /\ lastCall'.raised = ""
          /\ ALL_OPTIONS' = None
          /\ console' = Append(console, RecordOf("error", Num(207)))]_vars

----------------------------------------------------------------------------
(* C4: the initialize_options call that constructs the options writes a    *)
(* WARNING record with code 209 when silent and message_log_directory are  *)
(* both set, and one with code 211 when silent is set with a policy other  *)
(* than "no_policy".                                                       *)

NewRecords == {console'[i] : i \in (Len(console) + 1)..Len(console')}

C4_ContradictionWarnings ==
    [][(ALL_OPTIONS = None /\ Initialized')
       => /\ (Silent(ALL_OPTIONS')
                 /\ Truthy(get_option_value(ALL_OPTIONS', "message_log_directory"))
              => RecordOf("warn", Num(209)) \in NewRecords)
          /\ (Silent(ALL_OPTIONS')
                 /\ get_option_value(ALL_OPTIONS', "policy") # Word("no_policy")
              => RecordOf("warn", Num(211)) \in NewRecords)]_vars

----------------------------------------------------------------------------
(* C5: once the options exist they are never replaced or dropped: an       *)
(* initialize_options call on existing options changes nothing and raises  *)
(* nothing, whatever its arguments, and no call makes ALL_OPTIONS None     *)
(* again.                                                                  *)

C5_InitializedOnce ==
    /\ [][(Initialized /\ lastCall'.op = "initialize_options")
          => ProgramStateUnchanged /\ lastCall'.raised = ""]_vars
    /\ [][Initialized => Initialized']_vars

\* initialize_options has been called on options that a set_option_value
\* call had changed and under which a message had been written.
C5_Witness ==
    /\ Initialized
    /\ lastCall.op = "initialize_options"
    /\ nsets > 0
    /\ console # <<>>

----------------------------------------------------------------------------
(* C6: an info, warn or error call whose code passes the gate.             *)

FileSinkAttached == fh # None /\ InList(fh.i, log_handlers)

\* The record rec was appended to the console and, when a file handler is
\* attached, written to its file (which the first record creates or
\* truncates).
Written(rec) ==
    /\ console' = Append(console, rec)
    /\ FileSinkAttached =>
          LET o == handler_objs[fh.i]
              before == IF o.stream = "open" THEN files[o.path] ELSE <<>>
          IN /\ o.path \in DOMAIN files'
             /\ files'[o.path] = Append(before, rec)

PassingCall == lastCall'.op \in EmitOps /\ Gate(lastCall'.arg) = True

\* C6 as claimed: every call that passes the gate is written to the console
\* (and to the attached file) and sets MESSAGES_GENERATED, whatever the log
\* level and whether or not setup_logger has run.
C6_PassingCallAlwaysWritten ==
    [][PassingCall
       => /\ Written(RecordOf(lastCall'.op, lastCall'.arg))
          /\ MESSAGES_GENERATED']_vars

\* C6 as amended: every call that passes the gate sets MESSAGES_GENERATED;
\* it is written to the console (and to the attached file) exactly when its
\* severity is at least the effective level of the logger, which is WARNING
\* until setup_logger has applied log_level.
C6_PassingCallWrittenAtLevel ==
    [][PassingCall
       => /\ MESSAGES_GENERATED'
          /\ lastCall'.raised = ""
          /\ IF LevelNoOf(lastCall'.op) >= EffectiveLevel(log_level)
             THEN Written(RecordOf(lastCall'.op, lastCall'.arg))
             ELSE UNCHANGED <<console, files, handler_objs>>]_vars

\* An info call has been written to the console and to the log file.
C6_Witness ==
    /\ lastCall.op = "info"
    /\ MESSAGES_GENERATED
    /\ console = <<RecordOf("info", lastCall.arg)>>
    /\ FileSinkAttached
    /\ handler_objs[fh.i].path \in DOMAIN files
    /\ files[handler_objs[fh.i].path] = console

----------------------------------------------------------------------------
(* C7: an info, warn or error call whose code does not pass the gate       *)
(* changes nothing and raises nothing; after construction with             *)
(* disable="207,209" (everything else at its default) error(..., 207)      *)
(* writes nothing and leaves MESSAGES_GENERATED unset, and warn(..., 210)   *)
(* is written and sets it.                                                 *)

ScenarioArgs ==
    Namespace(EmptyStr, Str(S207 \o <<Comma>> \o S209), False, None,
              Default("policy"), Default("log_level"), NoOptional)

ScenarioState == ALL_OPTIONS = ElevatorOptions(ScenarioArgs, KwDefaults)

C7_BlockedCallIsNoOp ==
    /\ [][(lastCall'.op \in EmitOps /\ Gate(lastCall'.arg) = False)
          => ProgramStateUnchanged /\ lastCall'.raised = ""]_vars
    /\ [][(lastCall'.op = "error" /\ lastCall'.arg = Num(207) /\ ScenarioState)
          => ProgramStateUnchanged /\ lastCall'.raised = ""]_vars
    /\ [][(lastCall'.op = "warn" /\ lastCall'.arg = Num(210) /\ ScenarioState)
          => /\ Written(RecordOf("warn", Num(210)))
             /\ MESSAGES_GENERATED']_vars

\* error(..., 207) has been called after construction with
\* disable="207,209": nothing was written and the flag is unset.
C7_Witness ==
    /\ ScenarioState
    /\ lastCall = [op |-> "error", arg |-> Num(207), raised |-> ""]
    /\ console = <<>>
    /\ ~MESSAGES_GENERATED

----------------------------------------------------------------------------
(* C8: info, warn and error return normally in every reachable state,      *)
(* also before initialize_options has run.                                 *)

C8_EmitNeverRaises == lastCall.op \in EmitOps => lastCall.raised = ""

----------------------------------------------------------------------------
(* C9: after default construction (enable and disable empty, silent        *)
(* false), from None or from a command line, the gate is open for every    *)
(* code of the catalog: enabled holds the whole catalog as strings and     *)
(* disabled is empty.                                                      *)

DefaultConstructed ==
    /\ Initialized
    /\ nsets = 0
    /\ Attr("enable") = EmptyStr
    /\ Attr("disable") = EmptyStr
    /\ Attr("silent") = False

C9_DefaultEnablesCatalog ==
    DefaultConstructed =>
        /\ \A i \in 1..Len(CHECK_CODES) : Gate(CHECK_CODES[i]) = True
        /\ Attr("enabled") =
              List([i \in 1..Len(CHECK_CODES) |-> Str(IntToStr(CHECK_CODES[i].i))])
        /\ Attr("disabled") = List(<<>>)

\* The options were constructed from the keyword defaults
\* (initialize_options(None)) and an error call has been written.
C9_Witness ==
    /\ DefaultConstructed
    /\ "file_" \in DOMAIN ALL_OPTIONS.a
    /\ lastCall.op = "error"
    /\ console = <<RecordOf("error", lastCall.arg)>>

----------------------------------------------------------------------------
(* C10: after construction with disable set to the string of one catalog   *)
(* code C (silent false), the gate is closed for C and open for every      *)
(* other catalog code.                                                     *)

C10_DisableOneCode ==
    Initialized =>
        \A i \in 1..Len(CHECK_CODES) :
            Attr("disable") = text_type(CHECK_CODES[i]) =>
                \A j \in 1..Len(CHECK_CODES) :
                    Gate(CHECK_CODES[j]) = Bool(j # i)

\* The last code of the catalog is disabled, and an error call with another
\* code has been written.
C10_Witness ==
    /\ Initialized
    /\ Attr("disable") = text_type(CHECK_CODES[Len(CHECK_CODES)])
    /\ Attr("disabled") = List(<<Str(IntToStr(905))>>)
    /\ lastCall = [op |-> "error", arg |-> Num(207), raised |-> ""]
    /\ console = <<RecordOf("error", Num(207))>>

----------------------------------------------------------------------------
(* C11: after construction with enable and disable both non-empty (silent  *)
(* false) the gate consults the disable list only: a code is enabled       *)
(* exactly when it is not in the disable list, whether or not it is in the *)
(* enable list.                                                            *)

BothListsGiven ==
    /\ Initialized
    /\ nsets = 0
    /\ Truthy(Attr("enable"))
    /\ Truthy(Attr("disable"))
    /\ Attr("silent") = False

Tokens(option) == {Str(t) : t \in Elems(split(option.s, Comma))}

C11_DisableWins ==
    BothListsGiven =>
        \A n \in TestCodes :
            Gate(Num(n)) = Bool(text_type(Num(n)) \notin Tokens(Attr("disable")))

\* 207 is in both lists and is blocked; 999 is only in the enable list and
\* 210 is in neither list, and both pass; error(..., 207) has been called.
C11_Witness ==
    /\ BothListsGiven
    /\ Str(S207) \in Tokens(Attr("enable")) \cap Tokens(Attr("disable"))
    /\ Str(S999) \in Tokens(Attr("enable")) \ Tokens(Attr("disable"))
    /\ Str(S210) \notin Tokens(Attr("enable")) \cup Tokens(Attr("disable"))
    /\ Gate(Num(207)) = False
    /\ Gate(Num(999)) = True
    /\ Gate(Num(210)) = True
    /\ lastCall = [op |-> "error", arg |-> Num(207), raised |-> ""]

----------------------------------------------------------------------------
(* C12: the console handler is always attached; at most one file handler   *)
(* is attached, it is the one created last, and every file handler created *)
(* before it is closed and detached.                                       *)

C12_OneFileSink ==
    /\ InList(CH, log_handlers)
    /\ Cardinality({i \in 1..Len(log_handlers) : log_handlers[i] # CH}) <= 1
    /\ handler_objs # <<>> =>
          /\ fh = Num(Len(handler_objs))
          /\ log_handlers = <<CH, Len(handler_objs)>>
          /\ handler_objs[Len(handler_objs)].stream # "closed"
    /\ \A id \in 1..(Len(handler_objs) - 1) :
          /\ handler_objs[id].stream = "closed"
          /\ ~InList(id, log_handlers)

\* A second setup_logger has replaced a file handler that had written its
\* file.
C12_Witness ==
    /\ Len(handler_objs) = 2
    /\ lastCall.op = "setup_logger"
    /\ lastCall.raised = ""
    /\ handler_objs[1].path \in DOMAIN files
    /\ handler_objs[1].stream = "closed"
    /\ log_handlers = <<CH, 2>>

----------------------------------------------------------------------------
(* C13: a setup_logger call made while no message_log_directory is         *)
(* configured leaves no file handler attached.                             *)

NoLogDirectory ==
    Initialized /\ ~Truthy(get_option_value(ALL_OPTIONS, "message_log_directory"))

C13_ConsoleOnlyWithoutDirectory ==
    [][(lastCall'.op = "setup_logger" /\ NoLogDirectory)
       => ~(fh' # None /\ InList(fh'.i, log_handlers'))]_vars

----------------------------------------------------------------------------
(* C14: the log file of the attached file handler.                         *)

\* The records in file p; none when the file does not exist.
ContentAt(p) == IF p \in DOMAIN files THEN files[p] ELSE <<>>

\* C14 as claimed: from the setup_logger call on, the file at the handler's
\* path holds exactly the records written since that call, also while none
\* has been written.
C14_FileHoldsRecordsSinceSetup ==
    FileSinkAttached =>
        ContentAt(handler_objs[fh.i].path) = history.since_setup

\* C14 as amended: until the first record is written after the setup call
\* the file at the handler's path is as the call found it (absent, or with
\* its earlier content); from the first record on it holds exactly the
\* records written since the call.
C14_FileHoldsRecordsSinceFirstWrite ==
    FileSinkAttached =>
        LET o == handler_objs[fh.i] IN
        IF o.stream = "open"
        THEN /\ history.since_setup # <<>>
             /\ FileAt(files, o.path) = <<history.since_setup>>
        ELSE /\ history.since_setup = <<>>
             /\ FileAt(files, o.path) = history.at_setup

\* A second setup_logger for the same path found a record in the file, and
\* the record written after it has replaced that content.
C14_Witness ==
    /\ Len(handler_objs) = 2
    /\ Len(console) = 2
    /\ FileSinkAttached
    /\ handler_objs[1].path = handler_objs[2].path
    /\ history.at_setup = <<<<console[1]>>>>
    /\ files[handler_objs[2].path] = <<console[2]>>

----------------------------------------------------------------------------
(* C15: setup_logger leaves every file as it is; a file is created or      *)
(* changed only by an info, warn or error call whose code passes the gate  *)
(* and whose severity passes the logger's level.                           *)

C15_FileOpenedLazily ==
    /\ [][lastCall'.op = "setup_logger" => files' = files]_vars
    /\ [][files' # files
          => /\ lastCall'.op \in EmitOps
             /\ Gate(lastCall'.arg) = True
             /\ LevelNoOf(lastCall'.op) >= EffectiveLevel(log_level)
             /\ FileSinkAttached]_vars

\* setup_logger has created the directory and attached a handler, and the
\* file does not exist.
C15_Witness ==
    /\ lastCall.op = "setup_logger"
    /\ lastCall.raised = ""
    /\ FileSinkAttached
    /\ handler_objs[fh.i].stream = "delayed"
    /\ handler_objs[fh.i].path \notin DOMAIN files
    /\ LogDir \in dirs

----------------------------------------------------------------------------
(* C16: the name of the log file.                                          *)

\* s without its extension: what precedes the last dot of s, or s when it
\* has no dot.
RECURSIVE StripExtension(_)
StripExtension(s) ==
    IF s = <<>> THEN <<>>
    ELSE IF s[Len(s)] = Dot
         THEN SubSeq(s, 1, Len(s) - 1)
         ELSE LET head == SubSeq(s, 1, Len(s) - 1) IN
              IF \E i \in 1..Len(head) : head[i] = Dot
              THEN StripExtension(head)
              ELSE s

\* What follows the first colon of s (nothing when s has no colon).
RECURSIVE AfterFirstColon(_)
AfterFirstColon(s) ==
    IF s = <<>> THEN <<>>
    ELSE IF s[1] = Colon THEN SubSeq(s, 2, Len(s))
    ELSE AfterFirstColon(SubSeq(s, 2, Len(s)))

\* The name C16 states.
ClaimedLogFileName(file_directory, package_id) ==
    IF Truthy(file_directory)
    THEN StripExtension(Basename(file_directory.s)) \o DotLog
    ELSE AfterFirstColon(package_id.s) \o DotLog

\* C16 as claimed: every setup_logger call made with a message log directory
\* configured returns normally and attaches a file handler whose file is, in
\* that directory, the base name of file_ up to its extension plus ".log",
\* or without file_ what follows the first colon of the package id plus
\* ".log".
C16_LogFileNameAsClaimed ==
    [][(/\ lastCall'.op = "setup_logger"
        /\ Initialized
        /\ ~NoLogDirectory
        /\ LevelNo(Attr("log_level")).t # "raise")
       => /\ lastCall'.raised = ""
          /\ Len(handler_objs') = Len(handler_objs) + 1
          /\ handler_objs'[Len(handler_objs')].path =
                AbsPath(PathJoin(Attr("message_log_directory").s,
                                 ClaimedLogFileName(
                                     get_option_value(ALL_OPTIONS, "file_"),
                                     lastCall'.arg)))]_vars

----------------------------------------------------------------------------
(* C17: get_option_value raises nothing and changes nothing; it returns    *)
(* the attribute's value when the options object exists and has the        *)
(* attribute, and None otherwise.                                          *)

C17_GetNeverFails ==
    [][lastCall'.op = "get_option_value"
       => LET option_name == lastCall'.arg.s[1] IN
          /\ ProgramStateUnchanged
          /\ lastCall'.raised = ""
          /\ lastCall'.result.t # "raise"
          /\ lastCall'.result =
                IF ALL_OPTIONS # None /\ option_name \in DOMAIN ALL_OPTIONS.a
                THEN ALL_OPTIONS.a[option_name]
                ELSE None]_vars

\* The options object was built from parsed arguments without file_, and
\* get_option_value("file_") has returned None.
C17_Witness ==
    /\ lastCall.op = "get_option_value"
    /\ lastCall.arg = Word("file_")
    /\ ALL_OPTIONS # None
    /\ "file_" \notin DOMAIN ALL_OPTIONS.a
    /\ lastCall.result = None

----------------------------------------------------------------------------
(* C18: the lists `enabled` and `disabled` are derived at construction     *)
(* only.  set_option_value on "enable" or "disable" of an existing options *)
(* object changes that attribute alone and no answer of the gate; once the *)
(* object exists, an answer of the gate changes only in a set_option_value *)
(* on "silent", "enabled" or "disabled".                                   *)

GateAfter(code) == msg_id_enabled(ALL_OPTIONS', code)

C18_DerivedListsFixedAtConstruction ==
    /\ [][(/\ Initialized
           /\ lastCall'.op = "set_option_value"
           /\ lastCall'.arg \in {Word("enable"), Word("disable")})
          => /\ \A n \in DOMAIN ALL_OPTIONS.a :
                   n # lastCall'.arg.s[1] => ALL_OPTIONS'.a[n] = ALL_OPTIONS.a[n]
             /\ DOMAIN ALL_OPTIONS'.a = DOMAIN ALL_OPTIONS.a
             /\ \A c \in TestCodes :
                   /\ GateAfter(Num(c)) = Gate(Num(c))
                   /\ GateAfter(Str(IntToStr(c))) = Gate(Str(IntToStr(c)))]_vars
    /\ [][(/\ Initialized
           /\ \E c \in TestCodes : GateAfter(Num(c)) # Gate(Num(c)))
          => /\ lastCall'.op = "set_option_value"
             /\ lastCall'.arg \in {Word("silent"), Word("enabled"),
                                   Word("disabled")}]_vars

\* set_option_value("disable", "210") has been made on an options object
\* constructed with no disable list: "210" is in the raw string and not in
\* `disabled`, and the gate still passes 210.
C18_Witness ==
    /\ Initialized
    /\ lastCall.op = "set_option_value"
    /\ lastCall.arg = Word("disable")
    /\ Attr("disable") = Str(S210)
    /\ Attr("disabled") = List(<<>>)
    /\ Attr("enable") = EmptyStr
    /\ Attr("silent") = False
    /\ Gate(Num(210)) = True

----------------------------------------------------------------------------
(* C19: MESSAGES_GENERATED is false at the start and is true exactly when  *)
(* an info, warn or error call made so far passed the gate as it stood at  *)
(* the call; no call sets it back to false, and initialize_options,        *)
(* set_option_value, get_option_value and setup_logger leave it as it is.  *)

C19_FlagRecordsPassingCalls ==
    /\ ~MESSAGES_GENERATED
    /\ [](MESSAGES_GENERATED = history.passed)
    /\ [][MESSAGES_GENERATED => MESSAGES_GENERATED']_vars
    /\ [][lastCall'.op \notin EmitOps
          => MESSAGES_GENERATED' = MESSAGES_GENERATED]_vars

\* An info call passed the gate before setup_logger had lowered the level,
\* so that nothing was written, silent was set afterwards, and the last
\* call, an emitter, was blocked: the flag is true.
C19_Witness ==
    /\ MESSAGES_GENERATED
    /\ console = <<>>
    /\ Initialized
    /\ Attr("silent") = True
    /\ lastCall.op \in EmitOps
    /\ lastCall.raised = ""
    /\ Gate(lastCall.arg) = False

----------------------------------------------------------------------------
(* C20: 999, a code outside the catalog, is gated like any other: the gate *)
(* raises nothing on it; with silent false and an empty `disabled` it      *)
(* passes exactly when "999" is in `enabled`, so it is blocked after a     *)
(* default construction; with silent false and a non-empty `disabled`      *)
(* that does not hold "999" it passes.                                     *)

Uncatalogued == {Num(999), Str(S999)}

C20_UnknownCodeGatedLikeAny ==
    Initialized =>
        \A m \in Uncatalogued :
            /\ ~InList(m, CHECK_CODES)
            /\ Gate(m) \in {True, False}
            /\ (Attr("silent") = False /\ Attr("disabled") = List(<<>>))
                  => Gate(m) = Bool(InList(Str(S999), Attr("enabled").l))
            /\ DefaultConstructed => Gate(m) = False
            /\ (/\ Attr("silent") = False
                /\ Attr("disabled") # List(<<>>)
                /\ ~InList(Str(S999), Attr("disabled").l))
                  => Gate(m) = True

\* With "999" in the enable list and no disable list, an emitter called
\* with 999 has written its record.
C20_Witness ==
    /\ Initialized
    /\ Attr("disabled") = List(<<>>)
    /\ InList(Str(S999), Attr("enabled").l)
    /\ lastCall.op \in EmitOps
    /\ lastCall.arg = Num(999)
    /\ console # <<>>
    /\ console[Len(console)].ecode = Num(999)

====
